---- MODULE Spec2Model ----
(***************************************************************************)
(* A model of the two scripts of rusty-beam's test tooling:                *)
(*                                                                         *)
(*   test_websocket.py      the WebSocket smoke test (SmokeTester)         *)
(*   fix_plugin_configs.py  the selector-handler fixture writer            *)
(*                          (FixtureWriter)                                *)
(*                                                                         *)
(* Each script is one sequential process; its position is a program        *)
(* counter.  Library calls that can fail (handshake, sleep, send, close,   *)
(* open, write) are steps with two outcomes: completion, or an exception.  *)
(***************************************************************************)
EXTENDS Naturals, Sequences, FiniteSets

VARIABLES
    \* ---- test_websocket.py ----
    pc,        \* position of the coroutine test_websocket / of the process
    conn,      \* the connection: "none", "open" or "closed"
    exc,       \* the exception in flight or being handled, NoExc if none
    out,       \* lines printed to standard output, in order
    exitCode,  \* process exit status, NotExited while running
    events,    \* history of the library calls made, in order
    \* ---- fix_plugin_configs.py ----
    fpc,       \* position of the script
    dir,       \* state of tests/plugins/configs/: "ok", "missing", "readonly"
    file,      \* content of the target file on disk (lines), NoFile if absent
    buf,       \* text written to the handle and not yet flushed
    handle,    \* the file handle: "none", "open" or "closed"
    fexc,      \* TRUE when an I/O error is propagating
    fout,      \* lines printed by the current run
    fexit,     \* exit status of the current run, NotExited while running
    opens,     \* open() calls made by the current run
    runs,      \* number of times the script has been started
    okRuns     \* number of runs that ended with exit status 0

smokeVars == <<pc, conn, exc, out, exitCode, events>>
fixtureVars == <<fpc, dir, file, buf, handle, fexc, fout, fexit, opens, runs, okRuns>>
vars == <<pc, conn, exc, out, exitCode, events,
          fpc, dir, file, buf, handle, fexc, fout, fexit, opens, runs, okRuns>>

NoExc == "NoExc"
NotExited == 99

(***************************************************************************)
(*                        test_websocket.py                                *)
(***************************************************************************)

uri == "ws://localhost:3000/demos/todo/"
payload == "Hello WebSocket"
ConnectedMsg == <<"WebSocket connected successfully!">>
StableMsg == <<"WebSocket connection stable - no crashes!">>
ErrorMsg(e) == <<"Error: ", e>>

\* The texts of the exceptions (subclasses of Exception) the library calls
\* raise; `except Exception as e` binds any of them.
Exceptions ==
    {"ConnectionRefusedError", "InvalidHandshake", "ConnectionClosedError",
     "TimeoutError", "OSError"}

\* How many times x occurs in the sequence s.
Count(s, x) == Cardinality({i \in DOMAIN s : s[i] = x})

SmokeInit ==
    /\ pc = "start"
    /\ conn = "none"
    /\ exc = NoExc
    /\ out = <<>>
    /\ exitCode = NotExited
    /\ events = <<>>

\* asyncio.run(test_websocket()): the coroutine starts and calls
\* websockets.connect(uri); the task suspends on the handshake.
Connect ==
    /\ pc = "start"
    /\ pc' = "handshake"
    /\ events' = Append(events, "connect")
    /\ UNCHANGED <<conn, exc, out, exitCode>>
    /\ UNCHANGED fixtureVars

\* __aenter__ completes: the handshake succeeded, the scope is entered.
HandshakeOk ==
    /\ pc = "handshake"
    /\ conn' = "open"
    /\ events' = Append(events, "open")
    /\ pc' = "print_connected"
    /\ UNCHANGED <<exc, out, exitCode>>
    /\ UNCHANGED fixtureVars

\* __aenter__ raises: the scope was never entered, so no __aexit__ runs.
HandshakeFail ==
    /\ pc = "handshake"
    /\ \E e \in Exceptions : exc' = e
    /\ events' = Append(events, "raise")
    /\ pc' = "except"
    /\ UNCHANGED <<conn, out, exitCode>>
    /\ UNCHANGED fixtureVars

\* The print followed directly by the send, the first sleep left out.
PrintConnectedSkipSleep ==
    /\ pc = "print_connected"
    /\ out' = Append(out, ConnectedMsg)
    /\ pc' = "send"
    /\ UNCHANGED <<conn, exc, exitCode, events>>
    /\ UNCHANGED fixtureVars

PrintConnected ==
    /\ pc = "print_connected"
    /\ out' = Append(out, ConnectedMsg)
    /\ pc' = "sleep1"
    /\ UNCHANGED <<conn, exc, exitCode, events>>
    /\ UNCHANGED fixtureVars

\* A step of the scope's body that completes.
BodyOk(at, ev, next) ==
    /\ pc = at
    /\ events' = Append(events, ev)
    /\ pc' = next
    /\ UNCHANGED <<conn, exc, out, exitCode>>
    /\ UNCHANGED fixtureVars

\* A body step that raises with no scope around it: the exception goes
\* straight to the handler and nothing closes the connection.
BodyFailNoClose(at) ==
    /\ pc = at
    /\ \E e \in Exceptions : exc' = e
    /\ events' = Append(events, "raise")
    /\ pc' = "except"
    /\ UNCHANGED <<conn, out, exitCode>>
    /\ UNCHANGED fixtureVars

\* A step of the scope's body that raises: control leaves the body and the
\* scope's __aexit__ runs before the exception reaches the handler.
BodyFail(at) ==
    /\ pc = at
    /\ \E e \in Exceptions : exc' = e
    /\ events' = Append(events, "raise")
    /\ pc' = "aexit"
    /\ UNCHANGED <<conn, out, exitCode>>
    /\ UNCHANGED fixtureVars

Sleep1Ok == BodyOk("sleep1", "sleep1", "send")
Sleep1Fail == BodyFail("sleep1")
SendOk == BodyOk("send", "send", "sleep2")
SendFail == BodyFail("send")
Sleep2Ok == BodyOk("sleep2", "sleep2", "print_stable")
Sleep2Fail == BodyFail("sleep2")

\* The print followed by an explicit close inside the scope, which the
\* scope's exit then repeats.
PrintStableThenClose ==
    /\ pc = "print_stable"
    /\ out' = Append(out, StableMsg)
    /\ conn' = "closed"
    /\ events' = Append(events, "close")
    /\ pc' = "aexit"
    /\ UNCHANGED <<exc, exitCode>>
    /\ UNCHANGED fixtureVars

PrintStable ==
    /\ pc = "print_stable"
    /\ out' = Append(out, StableMsg)
    /\ pc' = "aexit"
    /\ UNCHANGED <<conn, exc, exitCode, events>>
    /\ UNCHANGED fixtureVars

\* __aexit__ closes the connection and completes.  It does not suppress an
\* exception in flight: that one goes on to the handler.
AexitOk ==
    /\ pc = "aexit"
    /\ conn' = "closed"
    /\ events' = Append(events, "close")
    /\ pc' = IF exc = NoExc THEN "return" ELSE "except"
    /\ UNCHANGED <<exc, out, exitCode>>
    /\ UNCHANGED fixtureVars

\* __aexit__ raises while closing: its exception replaces the one in flight.
AexitFail ==
    /\ pc = "aexit"
    /\ conn' = "closed"
    /\ \E e \in Exceptions : exc' = e
    /\ events' = Append(Append(events, "close"), "raise")
    /\ pc' = "except"
    /\ UNCHANGED <<out, exitCode>>
    /\ UNCHANGED fixtureVars

\* A scope exit that waits for the peer to close and never returns.
AexitHang ==
    /\ pc = "aexit"
    /\ UNCHANGED vars

Aexit == AexitOk \/ AexitFail

\* A handler that tries the whole test once more before giving up.
ExceptRetryOnce ==
    /\ pc = "except"
    /\ IF Count(events, "connect") < 2
       THEN /\ pc' = "start"
            /\ exc' = NoExc
            /\ conn' = "none"
            /\ UNCHANGED out
       ELSE /\ out' = Append(out, ErrorMsg(exc))
            /\ pc' = "sysexit"
            /\ UNCHANGED <<conn, exc>>
    /\ UNCHANGED <<exitCode, events>>
    /\ UNCHANGED fixtureVars

\* except Exception as e: print(f"Error: {e}")
ExceptPrint ==
    /\ pc = "except"
    /\ out' = Append(out, ErrorMsg(exc))
    /\ pc' = "sysexit"
    /\ UNCHANGED <<conn, exc, exitCode, events>>
    /\ UNCHANGED fixtureVars

\* A handler that reports the error and lets the process end normally.
SysExitZero ==
    /\ pc = "sysexit"
    /\ exitCode' = 0
    /\ pc' = "done"
    /\ UNCHANGED <<conn, exc, out, events>>
    /\ UNCHANGED fixtureVars

\* sys.exit(1)
SysExit ==
    /\ pc = "sysexit"
    /\ exitCode' = 1
    /\ pc' = "done"
    /\ UNCHANGED <<conn, exc, out, events>>
    /\ UNCHANGED fixtureVars

\* The coroutine returns, asyncio.run returns, the script ends.
Return ==
    /\ pc = "return"
    /\ exitCode' = 0
    /\ pc' = "done"
    /\ UNCHANGED <<conn, exc, out, events>>
    /\ UNCHANGED fixtureVars

SmokeStep ==
    \/ Connect
    \/ HandshakeOk
    \/ HandshakeFail
    \/ PrintConnected
    \/ Sleep1Ok
    \/ Sleep1Fail
    \/ SendOk
    \/ SendFail
    \/ Sleep2Ok
    \/ Sleep2Fail
    \/ PrintStable
    \/ Aexit
    \/ ExceptPrint
    \/ SysExit
    \/ Return

\* The state of the run in the terms of the state machine
\* Idle -> Connecting -> Connected -> Sent -> Closed | Failed.
State ==
    IF exc # NoExc THEN "Failed"
    ELSE IF pc = "start" THEN "Idle"
    ELSE IF pc = "handshake" THEN "Connecting"
    ELSE IF pc \in {"print_connected", "sleep1", "send"} THEN "Connected"
    ELSE IF pc \in {"sleep2", "print_stable", "aexit"} THEN "Sent"
    ELSE "Closed"

(***************************************************************************)
(*                        fix_plugin_configs.py                            *)
(***************************************************************************)

\* The text is kept as its lines; a line is its indentation and its tokens
\* (tags, and the text between tags, a file:// prefix apart from the path).
L(ind, toks) == [ind |-> ind, toks |-> toks]

\* Lines 6-40: the document up to the host root row.
config_head == <<
    L(0, <<"<\\!DOCTYPE html>">>),
    L(0, <<"<html lang=\"en\">">>),
    L(0, <<"<head>">>),
    L(4, <<"<title>", "Selector Handler Plugin Test Configuration", "</title>">>),
    L(0, <<"</head>">>),
    L(0, <<"<body>">>),
    L(4, <<"<h1>", "Selector Handler Plugin Test Configuration", "</h1>">>),
    L(4, <<>>),
    L(4, <<"<table itemref=\"host-localhost\" itemscope itemtype=\"http://rustybeam.net/ServerConfig\">">>),
    L(8, <<"<tbody>">>),
    L(12, <<"<tr>">>),
    L(16, <<"<td>", "Server Root", "</td>">>),
    L(16, <<"<td itemprop=\"serverRoot\">", "tests/plugins/hosts/selector-handler", "</td>">>),
    L(12, <<"</tr>">>),
    L(12, <<"<tr>">>),
    L(16, <<"<td>", "Address", "</td>">>),
    L(16, <<"<td itemprop=\"bindAddress\">", "127.0.0.1", "</td>">>),
    L(12, <<"</tr>">>),
    L(12, <<"<tr>">>),
    L(16, <<"<td>", "Port", "</td>">>),
    L(16, <<"<td itemprop=\"bindPort\">", "3000", "</td>">>),
    L(12, <<"</tr>">>),
    L(8, <<"</tbody>">>),
    L(4, <<"</table>">>),
    L(4, <<>>),
    L(4, <<"<table id=\"host-localhost\" itemprop=\"host\" itemscope itemtype=\"http://rustybeam.net/HostConfig\">">>),
    L(8, <<"<tbody>">>),
    L(12, <<"<tr>">>),
    L(16, <<"<td>", "Host Name", "</td>">>),
    L(16, <<"<td itemprop=\"hostName\">", "localhost", "</td>">>),
    L(12, <<"</tr>">>),
    L(12, <<"<tr>">>),
    L(16, <<"<td>", "Host Root", "</td>">>),
    L(16, <<"<td itemprop=\"hostRoot\">", "tests/plugins/hosts/selector-handler", "</td>">>),
    L(12, <<"</tr>">>)
>>

\* Lines 41-44: the first plugin row.
config_plugin_selector == <<
    L(12, <<"<tr itemprop=\"plugin\" itemscope itemtype=\"http://rustybeam.net/Plugin\">">>),
    L(16, <<"<td>", "Selector Handler", "</td>">>),
    L(16, <<"<td itemprop=\"library\">", "file://", "./plugins/librusty_beam_selector_handler.so", "</td>">>),
    L(12, <<"</tr>">>)
>>

\* Lines 45-48: the second plugin row.
config_plugin_file == <<
    L(12, <<"<tr itemprop=\"plugin\" itemscope itemtype=\"http://rustybeam.net/Plugin\">">>),
    L(16, <<"<td>", "File Handler", "</td>">>),
    L(16, <<"<td itemprop=\"library\">", "file://", "./plugins/librusty_beam_file_handler.so", "</td>">>),
    L(12, <<"</tr>">>)
>>

\* Lines 49-52: the end of the host table and of the document.
config_tail == <<
    L(8, <<"</tbody>">>),
    L(4, <<"</table>">>),
    L(0, <<"</body>">>),
    L(0, <<"</html>">>)
>>

\* A variant of the literal with the two plugin rows exchanged.
selector_config_swapped ==
    config_head \o config_plugin_file \o config_plugin_selector \o config_tail

\* selector_config = """...""" (lines 6-52)
selector_config ==
    config_head \o config_plugin_selector \o config_plugin_file \o config_tail

CompletionMsg == "Fixed selector-handler config"

NoFile == [exists |-> FALSE, lines |-> <<>>]
FileOf(lines) == [exists |-> TRUE, lines |-> lines]

\* Bounds of the model.
MaxRuns == 2
MaxPriorLines == 2

\* Lines a file left by something else may hold.
StaleLines == {L(0, <<"<html>">>), L(4, <<"stale">>)}

RECURSIVE SeqsUpTo(_, _)
SeqsUpTo(S, n) ==
    IF n = 0 THEN {<<>>}
    ELSE LET shorter == SeqsUpTo(S, n - 1)
         IN shorter \cup {Append(s, x) : s \in shorter, x \in S}

\* What the target path may hold before the first run: nothing, or a file
\* with stale lines, or an earlier copy of the fixture with or without
\* stale lines after it.
PriorContents ==
    {NoFile}
    \cup {FileOf(s) : s \in SeqsUpTo(StaleLines, MaxPriorLines)}
    \cup {FileOf(selector_config \o s) : s \in SeqsUpTo(StaleLines, MaxPriorLines)}

FixtureInit ==
    /\ fpc = "idle"
    /\ dir \in {"ok", "missing", "readonly"}
    /\ file \in (IF dir = "missing" THEN {NoFile} ELSE PriorContents)
    /\ buf = <<>>
    /\ handle = "none"
    /\ fexc = FALSE
    /\ fout = <<>>
    /\ fexit = NotExited
    /\ opens = 0
    /\ runs = 0
    /\ okRuns = 0

\* The interpreter is started on the script: the imports and the
\* assignment of selector_config (lines 1-52).
Start ==
    /\ fpc \in {"idle", "done"}
    /\ runs < MaxRuns
    /\ runs' = runs + 1
    /\ fpc' = "open"
    /\ buf' = <<>>
    /\ handle' = "none"
    /\ fexc' = FALSE
    /\ fout' = <<>>
    /\ fexit' = NotExited
    /\ opens' = 0
    /\ UNCHANGED <<dir, file, okRuns>>
    /\ UNCHANGED smokeVars

\* A mode that keeps the old content.
AppendMode == "a"

\* The mode of open(..., "w").
OpenMode == "w"

\* The content of the file once open() has returned.
Opened(mode, old) ==
    IF mode = "w" \/ ~old.exists THEN FileOf(<<>>) ELSE old

\* open() can succeed when the directory exists and, if the file has to be
\* created, is writable.
CanOpen == dir = "ok" \/ (dir = "readonly" /\ file.exists)

OpenOk ==
    /\ fpc = "open"
    /\ CanOpen
    /\ file' = Opened(OpenMode, file)
    /\ handle' = "open"
    /\ opens' = opens + 1
    /\ fpc' = "write"
    /\ UNCHANGED <<dir, buf, fexc, fout, fexit, runs, okRuns>>
    /\ UNCHANGED smokeVars

\* open() raises OSError (missing directory, permission denied, ...): the
\* with block is not entered and the error propagates.
OpenFail ==
    /\ fpc = "open"
    /\ fexc' = TRUE
    /\ opens' = opens + 1
    /\ fpc' = "crash"
    /\ UNCHANGED <<dir, file, buf, handle, fout, fexit, runs, okRuns>>
    /\ UNCHANGED smokeVars

\* f.write(selector_config) returns: the text is in the handle's buffer.
WriteOk ==
    /\ fpc = "write"
    /\ buf' = buf \o selector_config
    /\ fpc' = "exit_with"
    /\ UNCHANGED <<dir, file, handle, fexc, fout, fexit, opens, runs, okRuns>>
    /\ UNCHANGED smokeVars

\* f.write raises without closing: the handle is left to the interpreter.
WriteFailNoClose ==
    /\ fpc = "write"
    /\ \E k \in 0 .. (Len(selector_config) - 1) :
          file' = FileOf(file.lines \o SubSeq(selector_config, 1, k))
    /\ fexc' = TRUE
    /\ fpc' = "crash"
    /\ UNCHANGED <<dir, buf, handle, fout, fexit, opens, runs, okRuns>>
    /\ UNCHANGED smokeVars

\* f.write raises: some beginning of the text may have reached the disk;
\* control leaves the with block through __exit__.
WriteFail ==
    /\ fpc = "write"
    /\ \E k \in 0 .. (Len(selector_config) - 1) :
          file' = FileOf(file.lines \o SubSeq(selector_config, 1, k))
    /\ fexc' = TRUE
    /\ fpc' = "exit_with"
    /\ UNCHANGED <<dir, buf, handle, fout, fexit, opens, runs, okRuns>>
    /\ UNCHANGED smokeVars

\* __exit__ of the with block: the buffer is flushed and the handle closed.
CloseOk ==
    /\ fpc = "exit_with"
    /\ file' = FileOf(file.lines \o buf)
    /\ buf' = <<>>
    /\ handle' = "closed"
    /\ fpc' = IF fexc THEN "crash" ELSE "print"
    /\ UNCHANGED <<dir, fexc, fout, fexit, opens, runs, okRuns>>
    /\ UNCHANGED smokeVars

\* The flush fails: close() raises after some beginning of the buffer was
\* written; the handle is closed all the same.
CloseFail ==
    /\ fpc = "exit_with"
    /\ \E k \in 0 .. Len(buf) :
          file' = FileOf(file.lines \o SubSeq(buf, 1, k))
    /\ buf' = <<>>
    /\ handle' = "closed"
    /\ fexc' = TRUE
    /\ fpc' = "crash"
    /\ UNCHANGED <<dir, fout, fexit, opens, runs, okRuns>>
    /\ UNCHANGED smokeVars

\* print("Fixed selector-handler config"), the last statement: exit 0.
PrintFixed ==
    /\ fpc = "print"
    /\ fout' = Append(fout, CompletionMsg)
    /\ fexit' = 0
    /\ okRuns' = okRuns + 1
    /\ fpc' = "done"
    /\ UNCHANGED <<dir, file, buf, handle, fexc, opens, runs>>
    /\ UNCHANGED smokeVars

\* The error reaches the top level: traceback, exit status 1.
Crash ==
    /\ fpc = "crash"
    /\ fexit' = 1
    /\ fpc' = "done"
    /\ UNCHANGED <<dir, file, buf, handle, fexc, fout, opens, runs, okRuns>>
    /\ UNCHANGED smokeVars

FixtureStep ==
    \/ Start
    \/ OpenOk
    \/ OpenFail
    \/ WriteOk
    \/ WriteFail
    \/ CloseOk
    \/ CloseFail
    \/ PrintFixed
    \/ Crash

(***************************************************************************)
(*                          Specifications                                 *)
(***************************************************************************)

Init == SmokeInit /\ FixtureInit
Next == SmokeStep \/ FixtureStep
Spec == Init /\ [][Next]_vars

\* The smoke test alone.
SmokeNext == SmokeStep
SmokeOnlyInit ==
    /\ pc = "start"
    /\ conn = "none"
    /\ exc = NoExc
    /\ out = <<>>
    /\ exitCode = NotExited
    /\ events = <<>>
    /\ fpc = "idle"
    /\ dir = "ok"
    /\ file = NoFile
    /\ buf = <<>>
    /\ handle = "none"
    /\ fexc = FALSE
    /\ fout = <<>>
    /\ fexit = NotExited
    /\ opens = 0
    /\ runs = 0
    /\ okRuns = 0
SmokeSpec == SmokeOnlyInit /\ [][SmokeNext]_vars
\* Every suspension point completes or raises: a step that can be taken is
\* taken.
SmokeFairSpec == SmokeSpec /\ WF_vars(SmokeNext)

\* The fixture writer alone.
FixtureNext == FixtureStep
FixtureOnlyInit ==
    /\ pc = "start"
    /\ conn = "none"
    /\ exc = NoExc
    /\ out = <<>>
    /\ exitCode = NotExited
    /\ events = <<>>
    /\ fpc = "idle"
    /\ dir \in {"ok", "missing", "readonly"}
    /\ file \in (IF dir = "missing" THEN {NoFile} ELSE PriorContents)
    /\ buf = <<>>
    /\ handle = "none"
    /\ fexc = FALSE
    /\ fout = <<>>
    /\ fexit = NotExited
    /\ opens = 0
    /\ runs = 0
    /\ okRuns = 0
FixtureSpec == FixtureOnlyInit /\ [][FixtureNext]_vars

(***************************************************************************)
(*                 Properties of test_websocket.py                         *)
(***************************************************************************)

\* Every y in s has an x somewhere before it.
Before(s, x, y) ==
    \A j \in DOMAIN s : s[j] = y => \E i \in 1 .. (j - 1) : s[i] = x

Printed(m) == \E i \in DOMAIN out : out[i] = m
ErrorPrinted == \E e \in Exceptions : Printed(ErrorMsg(e))
Raised == Count(events, "raise") > 0
WasOpened == Count(events, "open") = 1

\* C1: a run makes exactly one connection-open (the connect call, made when
\* the run enters Connecting) and at most one close; a close only follows
\* an open; and at process end a connection that was opened is closed.
C1_ResourceRelease ==
    /\ Count(events, "connect") <= 1
    /\ Count(events, "open") <= Count(events, "connect")
    /\ Count(events, "close") <= Count(events, "open")
    /\ conn = "open" <=> (WasOpened /\ Count(events, "close") = 0)
    /\ pc = "done" =>
          /\ Count(events, "connect") = 1
          /\ conn # "open"
          /\ WasOpened => Count(events, "close") = 1

\* A finished run in which the send raised and the connection was closed.
C1_Witness ==
    /\ pc = "done"
    /\ events = <<"connect", "open", "sleep1", "raise", "close">>
    /\ conn = "closed"

\* C2: a run in which an exception was raised (during the handshake, the
\* send or a sleep) ends with the Error line of the exception the handler
\* caught as its last output and with exit status 1, never with status 0.
C2_ExceptionFails ==
    /\ Raised => (exc # NoExc /\ State = "Failed" /\ exitCode # 0)
    /\ (pc = "done" /\ Raised) =>
          /\ exitCode = 1
          /\ Len(out) >= 1
          /\ out[Len(out)] = ErrorMsg(exc)
    /\ exitCode = 0 => ~Raised

\* A finished run whose handshake raised.
C2_Witness ==
    /\ pc = "done"
    /\ events = <<"connect", "raise">>
    /\ exitCode = 1
    /\ ErrorPrinted

\* C3: a finished run shows exactly one of the two outcomes: the success
\* line with exit status 0 and no Error line, or an Error line with exit
\* status 1 and no success line.
C3_ExactlyOneOutcome ==
    pc = "done" =>
        \/ Printed(StableMsg) /\ exitCode = 0 /\ ~ErrorPrinted
        \/ ErrorPrinted /\ exitCode = 1 /\ ~Printed(StableMsg)

\* C4: once the connection was opened, it is closed (exactly once) before
\* the handler runs: no Error line is printed and no exit status is set
\* while it is still open.
C4_CloseBeforeReport ==
    /\ (WasOpened /\ pc \in {"except", "sysexit", "return", "done"}) =>
          (conn = "closed" /\ Count(events, "close") = 1)
    /\ (WasOpened /\ ErrorPrinted) => conn = "closed"
    /\ (WasOpened /\ exitCode # NotExited) => conn = "closed"

\* The first sleep raised, the connection was closed, the error is printed
\* and the process is about to exit.
C4_Witness ==
    /\ pc = "sysexit"
    /\ events = <<"connect", "open", "raise", "close">>
    /\ ErrorPrinted
    /\ conn = "closed"

\* The transitions the two listed paths are made of.
ListedPaths ==
    {<<"Idle", "Connecting">>, <<"Connecting", "Connected">>,
     <<"Connected", "Sent">>, <<"Sent", "Closed">>,
     <<"Connecting", "Failed">>}

\* The send is made in Connected, after the open and the first sleep, at
\* most once; Closed is reached after the send and the second sleep; a run
\* ends with exit status 0 only in Closed.
SendDiscipline ==
    /\ Count(events, "send") <= 1
    /\ Before(events, "open", "send")
    /\ Before(events, "sleep1", "send")
    /\ State = "Closed" =>
          /\ Count(events, "send") = 1
          /\ Count(events, "sleep2") = 1
          /\ Before(events, "send", "sleep2")
          /\ Count(events, "close") = 1
    /\ exitCode = 0 => State = "Closed"

SendInConnected ==
    Count(events', "send") > Count(events, "send") => State = "Connected"

\* C5 as stated: the state changes only along
\* Idle -> Connecting -> Connected -> Sent -> Closed or
\* Idle -> Connecting -> Failed, with the send made once, in Connected,
\* after the first sleep, and Closed only after send and second sleep.
C5_OnlyListedPaths ==
    /\ [][(State' # State => <<State, State'>> \in ListedPaths)
          /\ SendInConnected]_vars
    /\ []SendDiscipline

\* C5 amended: Failed is entered from Connecting, Connected or Sent; the
\* rest as stated.
C5_PathsWithFailure ==
    /\ [][(State' # State =>
              <<State, State'>> \in
                  ListedPaths \cup {<<"Connected", "Failed">>, <<"Sent", "Failed">>})
          /\ SendInConnected]_vars
    /\ []SendDiscipline

\* The happy path run to its end.
C5_Witness ==
    /\ pc = "done"
    /\ State = "Closed"
    /\ events = <<"connect", "open", "sleep1", "send", "sleep2", "close">>

\* C6: at most one handshake is attempted; after the first exception no
\* connect, send or sleep follows (only the scope's close, and what the
\* close raises); and a run in which anything raised ends Failed, status 1.
C6_NoRetry ==
    /\ Count(events, "connect") <= 1
    /\ \A i, j \in DOMAIN events :
          (i < j /\ events[i] = "raise") => events[j] \in {"close", "raise"}
    /\ (pc = "done" /\ Raised) => (State = "Failed" /\ exitCode = 1)

\* A finished run whose second sleep raised.
C6_Witness ==
    /\ pc = "done"
    /\ events = <<"connect", "open", "sleep1", "send", "raise", "close">>
    /\ exitCode = 1

\* C7: when every step that can be taken is eventually taken, the run
\* reaches the end of the process in Closed (status 0) or Failed
\* (status 1), and no step is taken from there.
C7_Terminates ==
    /\ <>(/\ pc = "done"
          /\ \/ State = "Closed" /\ exitCode = 0
             \/ State = "Failed" /\ exitCode = 1)
    /\ [][pc # "done"]_vars

\* A run that went through to the close, which raised.
C7_Witness ==
    /\ pc = "done"
    /\ State = "Failed"
    /\ events = <<"connect", "open", "sleep1", "send", "sleep2", "close", "raise">>

(***************************************************************************)
(*                Properties of fix_plugin_configs.py                      *)
(***************************************************************************)

PluginRowTag ==
    "<tr itemprop=\"plugin\" itemscope itemtype=\"http://rustybeam.net/Plugin\">"

\* Line i of doc opens a plugin row: a name cell and a library cell follow.
IsPluginRow(doc, i) ==
    /\ i + 2 <= Len(doc)
    /\ doc[i].toks = <<PluginRowTag>>
    /\ Len(doc[i + 1].toks) = 3
    /\ doc[i + 1].toks[1] = "<td>"
    /\ Len(doc[i + 2].toks) = 4
    /\ doc[i + 2].toks[1] = "<td itemprop=\"library\">"

RECURSIVE PluginEntriesFrom(_, _)
PluginEntriesFrom(doc, i) ==
    IF i > Len(doc) THEN <<>>
    ELSE IF IsPluginRow(doc, i)
         THEN <<[name |-> doc[i + 1].toks[2],
                 scheme |-> doc[i + 2].toks[2],
                 path |-> doc[i + 2].toks[3]]>>
              \o PluginEntriesFrom(doc, i + 1)
         ELSE PluginEntriesFrom(doc, i + 1)

\* The plugin entries of a document, in document order.
PluginEntries(doc) == PluginEntriesFrom(doc, 1)

RECURSIVE CellsFrom(_, _, _)
CellsFrom(doc, tag, i) ==
    IF i > Len(doc) THEN <<>>
    ELSE IF Len(doc[i].toks) = 3 /\ doc[i].toks[1] = tag
         THEN <<doc[i].toks[2]>> \o CellsFrom(doc, tag, i + 1)
         ELSE CellsFrom(doc, tag, i + 1)

\* The texts of the cells of a document opened by tag, in document order.
Cells(doc, tag) == CellsFrom(doc, tag, 1)

Succeeded == fpc = "done" /\ fexit = 0

\* C8: after a run that succeeded, whatever the path held before and
\* however many runs came before it, the file is exactly the fixture text.
C8_IdempotentWrite ==
    Succeeded => file = FileOf(selector_config)

\* The second of two successful runs has ended.
C8_Witness ==
    /\ Succeeded
    /\ okRuns = 2

\* C9: the written document lists exactly the two plugin entries, Selector
\* Handler before File Handler, each with a file:// library path of its
\* own, and its one bindPort cell holds 3000.
C9_PluginOrder ==
    Succeeded =>
        LET pe == PluginEntries(file.lines) IN
        /\ Len(pe) = 2
        /\ pe[1].name = "Selector Handler"
        /\ pe[2].name = "File Handler"
        /\ pe[1].scheme = "file://"
        /\ pe[2].scheme = "file://"
        /\ pe[1].path = "./plugins/librusty_beam_selector_handler.so"
        /\ pe[2].path = "./plugins/librusty_beam_file_handler.so"
        /\ Cells(file.lines, "<td itemprop=\"bindPort\">") = <<"3000">>

\* A first run over an older copy of the fixture has succeeded.
C9_Witness ==
    /\ Succeeded
    /\ runs = 1
    /\ Len(PluginEntries(file.lines)) = 2
    /\ Cells(file.lines, "<td itemprop=\"hostName\">") = <<"localhost">>

\* C10: while an I/O error propagates nothing has been printed; the run
\* then ends with status 1, after one open() call and with no handle left
\* open; the completion line is printed only with the handle closed, the
\* buffer flushed and no error.
C10_ErrorPropagates ==
    /\ opens <= 1
    /\ fexc => (fout = <<>> /\ fexit # 0)
    /\ fpc = "crash" => (fexc /\ handle # "open")
    /\ (fpc = "done" /\ fexc) => (fexit = 1 /\ handle # "open" /\ opens = 1)
    /\ fout # <<>> =>
          /\ fout = <<CompletionMsg>>
          /\ handle = "closed"
          /\ buf = <<>>
          /\ ~fexc
          /\ file = FileOf(selector_config)

\* A run whose write or flush failed has ended: handle closed, status 1.
C10_Witness ==
    /\ fpc = "done"
    /\ fexit = 1
    /\ handle = "closed"
    /\ fout = <<>>

====
